---- MODULE Spec2Model ----
(***************************************************************************)
(* Screen-state engine of neovim-mac (src/src/ui.cpp): the double-buffered *)
(* grid, the redraw handlers, the highlight table and the publication of   *)
(* a completed grid to the rendering consumer.                             *)
(*                                                                         *)
(* The event-processing thread runs one handler at a time; flush() is      *)
(* split at its atomic exchange so that the consumer thread, which loads   *)
(* the complete slot and then reads the grid in several steps, can         *)
(* interleave with it.                                                     *)
(***************************************************************************)
EXTENDS Integers, Sequences, FiniteSets, TLC

VARIABLES
    grids,        \* the two grid buffers: 1..2 -> [width, height, cells, draw_tick]
    writing,      \* ui_state::writing   (a buffer id)
    complete,     \* ui_state::complete  (the atomic slot, a buffer id)
    hltable,      \* highlight_table::table, id i at index i + 1
    cursor_table, \* ui_state::cursor_table, mode i at index i + 1
    current_mode, \* ui_state::current_mode
    fpc,          \* position of the event thread inside flush()
    cpc,          \* position of the consumer thread inside one grid read
    cgrid,        \* the buffer the consumer loaded from the complete slot (0: none)
    obsTick,      \* the draw_tick the consumer read last
    wrote,        \* the buffer the last step stored into (0: it stored nothing)
    fault,        \* "none", "abort" (std::abort) or "segv" (store past the cells)
    last,         \* the last handler call: its name and its outcome
    hist,         \* the arguments of the last call, and the writing grid and
                  \* the table as it found them
    ops,          \* handler calls so far
    batch         \* the events of the redraw() call under way, and the
                  \* event and the tuple its loops stand at

vars == <<grids, writing, complete, hltable, cursor_table, current_mode,
          fpc, cpc, cgrid, obsTick, wrote, fault, last, hist, ops, batch>>

\* ---------------------------------------------------------------- bounds
MaxDim == 2
MaxTick == 2
MaxOps == 3
MaxLineWidth == 3
MaxLineHeight == 2
MaxUpdates == 2
MaxScrollWidth == 2
MaxScrollHeight == 4
MaxTableSize == 3
MaxColorCells == 2
MaxColor == 2
MaxColorCalls == 2
MaxModes == 2
MaxModeCalls == 3
MaxEvents == 2
MaxIdArg == 2
MaxTextLen == 4

\* ------------------------------------------------------------ data model
Buffers == {1, 2}

NoCall == [op |-> "none", status |-> "none"]
NoHist == [grid |-> <<>>, table |-> <<>>, args |-> <<>>]
NoBatch == [events |-> <<>>, e |-> 1, t |-> 2]

\* rgb_color(): no color, not tracking the default
rgb_color_init == [rgb |-> 0, is_default |-> FALSE]

\* rgb_color(rgb): an explicit color
rgb_color(rgb) == [rgb |-> rgb, is_default |-> FALSE]

\* rgb_color(rgb, rgb_color::default_tag): a color that tracks the default
rgb_color_default(rgb) == [rgb |-> rgb, is_default |-> TRUE]

\* highlight_attributes{}
highlight_attributes_init ==
    [foreground |-> rgb_color_init, background |-> rgb_color_init,
     special |-> rgb_color_init, fontattrs |-> {}, attrs |-> {}]

\* cell ret = {}
cell_init ==
    [text |-> <<>>, size |-> 0, hash |-> 0, hl_attrs |-> highlight_attributes_init]

\* a grid as ui_state constructs it
grid_init == [width |-> 0, height |-> 0, cells |-> <<>>, draw_tick |-> 0]

\* highlight_table::get_default(): the reserved entry, id 0
get_default(table) == table[1]

\* ------------------------------------------------------------ grid::resize
\* std::vector<cell>::resize(n): the first min(old, n) cells stay, new cells
\* are value-initialized
vector_resize(cells, n) ==
    [i \in 1..n |-> IF i <= Len(cells) THEN cells[i] ELSE cell_init]

\* the resize with the cell count taken from the width alone
grid_resize_to_square(g, new_width, new_height) ==
    [g EXCEPT !.width = new_width, !.height = new_height,
              !.cells = vector_resize(g.cells, new_width * new_width)]

grid_resize_to(g, new_width, new_height) ==
    [g EXCEPT !.width = new_width, !.height = new_height,
              !.cells = vector_resize(g.cells, new_width * new_height)]

\* what every step of the event thread leaves alone
ConsumerUnchanged == UNCHANGED <<cpc, cgrid, obsTick>>

\* what every handler but mode_info_set and mode_change leaves alone
CursorUnchanged == UNCHANGED <<cursor_table, current_mode>>

\* ui_state::get_grid with an index other than 1: std::abort()
get_grid_abort(name) ==
    /\ fault' = "abort"
    /\ wrote' = 0
    /\ last' = [op |-> name, status |-> "abort"]
    /\ UNCHANGED <<grids, writing, complete, hltable, fpc>>
    /\ ConsumerUnchanged /\ CursorUnchanged

HandlerReady == fault = "none" /\ fpc = "idle"

grid_resize(grid_id, width, height) ==
    /\ HandlerReady
    /\ IF grid_id # 1 THEN get_grid_abort("grid_resize")
       ELSE /\ grids' = [grids EXCEPT ![writing] = grid_resize_to(@, width, height)]
            /\ wrote' = writing
            /\ last' = [op |-> "grid_resize", status |-> "ok"]
            /\ UNCHANGED <<writing, complete, hltable, fpc, fault>>
            /\ ConsumerUnchanged /\ CursorUnchanged

\* ------------------------------------------------------------ grid_clear
grid_clear_cells(g, table) ==
    LET empty == [cell_init EXCEPT
                    !.hl_attrs.background = get_default(table).background]
    IN  [g EXCEPT !.cells = [i \in 1..Len(g.cells) |-> empty]]

grid_clear(grid_id) ==
    /\ HandlerReady
    /\ IF grid_id # 1 THEN get_grid_abort("grid_clear")
       ELSE /\ grids' = [grids EXCEPT ![writing] = grid_clear_cells(@, hltable)]
            /\ wrote' = IF Len(grids[writing].cells) > 0 THEN writing ELSE 0
            /\ last' = [op |-> "grid_clear", status |-> "ok"]
            /\ UNCHANGED <<writing, complete, hltable, fpc, fault>>
            /\ ConsumerUnchanged /\ CursorUnchanged

\* ------------------------------------------------------------- grid_line
\* cell::max_text_size
max_text_size == 3

SPACE == 32

Min(a, b) == IF a < b THEN a ELSE b

\* a negative wire integer read into a size_t is a huge count
SizeModulus == 2^30
as_size_t(n) == IF n < 0 THEN n + SizeModulus ELSE n

\* ret.hash = 5381; for i < limit: ret.hash = (ret.hash * 33) + text[i]
RECURSIVE hash_fold(_, _, _)
hash_fold(hash, text, limit) ==
    IF limit = 0 THEN hash
    ELSE hash_fold(hash * 33 + Head(text), Tail(text), limit - 1)

make_cell(text, hl_attrs) ==
    IF Len(text) = 1 /\ text[1] = SPACE
    THEN [cell_init EXCEPT !.hl_attrs = hl_attrs]
    ELSE LET limit == Min(Len(text), max_text_size)
         IN  [text |-> SubSeq(text, 1, limit), size |-> limit,
              hash |-> hash_fold(5381, text, limit), hl_attrs |-> hl_attrs]

\* highlight_table::get_entry: a pointer to the entry, <<>> for nullptr
get_entry(table, hlid) ==
    IF as_size_t(hlid) < Len(table) THEN <<table[hlid + 1]>> ELSE <<>>

\* cell_update(): hlattr(nullptr), repeat(0)
cell_update_init == [text |-> <<>>, hlattr |-> <<>>, repeat |-> 0]

\* cell_update::set; an object is [shape, text, hl, repeat] with shape "t" for
\* [text], "th" for [text, hl_id], "thr" for [text, hl_id, repeat] and "bad"
\* for everything else
cell_update_set(update, object, table) ==
    CASE object.shape = "t" ->
           [ok |-> TRUE, update |-> [update EXCEPT !.text = object.text,
                                                   !.repeat = 1]]
      [] object.shape = "th" ->
           [ok |-> TRUE, update |-> [text |-> object.text,
                                     hlattr |-> get_entry(table, object.hl),
                                     repeat |-> 1]]
      [] object.shape = "thr" ->
           [ok |-> TRUE, update |-> [text |-> object.text,
                                     hlattr |-> get_entry(table, object.hl),
                                     repeat |-> as_size_t(object.repeat)]]
      [] OTHER -> [ok |-> FALSE, update |-> update]

\* *cell = make_cell(...); for (i = 1; i < repeat; ++i) cell[i] = *cell;
\* the 0-based indexes stored to: the first always, then repeat - 1 more
store_targets(idx, repeat) == {idx} \cup {idx + i : i \in 1..(repeat - 1)}

store_cells(cells, targets, c) ==
    [i \in 1..Len(cells) |-> IF (i - 1) \in targets THEN c ELSE cells[i]]

\* the loop of grid_line from update k on; st is the loop's state:
\* cells, idx (cell - cells.data()), remaining, update, writes (the indexes
\* each accepted update stored to) and status
RECURSIVE grid_line_loop(_, _, _, _)

\* the loop with the first store made before the row overflow check
grid_line_loop_store_first(st, objects, k, table) ==
    IF k > Len(objects) THEN [st EXCEPT !.status = "ok"]
    ELSE LET set == cell_update_set(st.update, objects[k], table)
             u == set.update
         IN  IF ~set.ok THEN [st EXCEPT !.status = "type_error"]
             ELSE IF u.hlattr = <<>> THEN [st EXCEPT !.status = "unknown_hl"]
             ELSE LET c == make_cell(u.text, u.hlattr[1]) IN
                  IF u.repeat > st.remaining
                  THEN [st EXCEPT !.cells = store_cells(@, {st.idx}, c),
                                  !.writes = Append(@, {st.idx}),
                                  !.status = "row_overflow"]
                  ELSE LET targets == store_targets(st.idx, u.repeat)
                       IN  grid_line_loop(
                               [st EXCEPT !.cells = store_cells(@, targets, c),
                                          !.idx = @ + u.repeat,
                                          !.remaining = @ - u.repeat,
                                          !.update = u,
                                          !.writes = Append(@, targets)],
                               objects, k + 1, table)

grid_line_loop(st, objects, k, table) ==
    IF k > Len(objects) THEN [st EXCEPT !.status = "ok"]
    ELSE LET set == cell_update_set(st.update, objects[k], table)
             u == set.update
         IN  IF ~set.ok THEN [st EXCEPT !.status = "type_error"]
             ELSE IF u.hlattr = <<>> THEN [st EXCEPT !.status = "unknown_hl"]
             ELSE IF u.repeat > st.remaining
                  THEN [st EXCEPT !.status = "row_overflow"]
             ELSE LET targets == store_targets(st.idx, u.repeat)
                      c == make_cell(u.text, u.hlattr[1])
                  IN  grid_line_loop(
                          [st EXCEPT !.cells = store_cells(@, targets, c),
                                     !.idx = @ + u.repeat,
                                     !.remaining = @ - u.repeat,
                                     !.update = u,
                                     !.writes = Append(@, targets)],
                          objects, k + 1, table)

\* grid_line on grid g: the cells it leaves, its outcome and its stores
grid_line_run(g, table, row, col, objects) ==
    IF as_size_t(row) >= g.height \/ as_size_t(col) >= g.width
    THEN [cells |-> g.cells, status |-> "out_of_bounds", writes |-> <<>>]
    ELSE LET st == grid_line_loop(
                       [cells |-> g.cells, idx |-> row * g.width + col,
                        remaining |-> g.width - col,
                        update |-> cell_update_init,
                        writes |-> <<>>, status |-> "running"],
                       objects, 1, table)
         IN  [cells |-> st.cells, status |-> st.status, writes |-> st.writes]

\* a store of grid_line past the end of the cell vector
past_the_end(g, writes) ==
    \E k \in 1..Len(writes) : \E i \in writes[k] : i >= Len(g.cells)

grid_line(grid_id, row, col, objects) ==
    /\ HandlerReady
    /\ IF grid_id # 1 THEN get_grid_abort("grid_line")
       ELSE LET run == grid_line_run(grids[writing], hltable, row, col, objects)
                outcomes == IF past_the_end(grids[writing], run.writes)
                            THEN {"none", "segv"} ELSE {"none"}
            IN  /\ grids' = [grids EXCEPT ![writing].cells = run.cells]
                /\ wrote' = IF run.writes # <<>> THEN writing ELSE 0
                \* a store past the end of the vector: the process dies there
                \* or runs on
                /\ \E outcome \in outcomes :
                      /\ fault' = outcome
                      /\ last' = [op |-> "grid_line",
                                  status |-> IF outcome = "segv" THEN "segv"
                                             ELSE run.status]
                /\ UNCHANGED <<writing, complete, hltable, fpc>>
                /\ ConsumerUnchanged /\ CursorUnchanged

\* ----------------------------------------------------------- grid_scroll
\* memcpy(dest, src, sizeof(cell) * width) on 0-based cell indexes
memcpy_cells(cells, dest, src, n) ==
    [i \in 1..Len(cells) |->
        IF (i - 1) >= dest /\ (i - 1) < dest + n
        THEN cells[(i - 1) - dest + src + 1] ELSE cells[i]]

\* memcpy's ranges overlap without being the same range
memcpy_overlap(dest, src, n) ==
    n > 0 /\ dest # src /\ dest < src + n /\ src < dest + n

\* for (long i = 0; i < count; ++i) { memcpy; dest += row_width; src += row_width; }
RECURSIVE grid_scroll_loop(_, _, _, _, _)
grid_scroll_loop(st, i, count, n, row_width) ==
    IF i >= count THEN st
    ELSE grid_scroll_loop(
             [cells |-> memcpy_cells(st.cells, st.dest, st.src, n),
              dest |-> st.dest + row_width,
              src |-> st.src + row_width,
              overlap |-> st.overlap \/ memcpy_overlap(st.dest, st.src, n),
              writes |-> Append(st.writes, {st.dest + j : j \in 0..(n - 1)})],
             i + 1, count, n, row_width)

\* the scroll walking down from the top for either sign of rows
grid_scroll_run_downward(g, top, bottom, left, right, rows) ==
    LET height == bottom - top
        width == right - left
        dest == IF rows >= 0 THEN top * g.width + left
                ELSE (top - rows) * g.width + left
        count == IF rows >= 0 THEN height - rows ELSE height + rows
    IN  grid_scroll_loop(
            [cells |-> g.cells, dest |-> dest, src |-> dest + g.width * rows,
             overlap |-> FALSE, writes |-> <<>>],
            0, count, width, g.width)

\* the scroll copying whole grid rows, the columns of the region aside
grid_scroll_run_whole_rows(g, top, bottom, left, right, rows) ==
    LET height == bottom - top
        dest == IF rows >= 0 THEN top * g.width ELSE (bottom - 1) * g.width
        row_width == IF rows >= 0 THEN g.width ELSE 0 - g.width
        count == IF rows >= 0 THEN height - rows ELSE height + rows
    IN  grid_scroll_loop(
            [cells |-> g.cells, dest |-> dest, src |-> dest + g.width * rows,
             overlap |-> FALSE, writes |-> <<>>],
            0, count, g.width, row_width)

\* grid_scroll on grid g once its arguments are accepted
grid_scroll_run(g, top, bottom, left, right, rows) ==
    LET height == bottom - top
        width == right - left
        dest == IF rows >= 0 THEN top * g.width + left
                ELSE (bottom - 1) * g.width + left
        row_width == IF rows >= 0 THEN g.width ELSE 0 - g.width
        count == IF rows >= 0 THEN height - rows ELSE height + rows
    IN  grid_scroll_loop(
            [cells |-> g.cells, dest |-> dest, src |-> dest + g.width * rows,
             overlap |-> FALSE, writes |-> <<>>],
            0, count, width, row_width)

grid_scroll(grid_id, top, bottom, left, right, rows) ==
    /\ HandlerReady
    /\ LET g == grids[writing] IN
       IF as_size_t(bottom) < as_size_t(top) \/ as_size_t(right) < as_size_t(left)
       THEN /\ last' = [op |-> "grid_scroll", status |-> "invalid_args"]
            /\ wrote' = 0
            /\ UNCHANGED <<grids, writing, complete, hltable, fpc, fault>>
            /\ ConsumerUnchanged /\ CursorUnchanged
       ELSE IF grid_id # 1 THEN get_grid_abort("grid_scroll")
       ELSE IF as_size_t(bottom) > g.height \/ as_size_t(right) > g.width
       THEN /\ last' = [op |-> "grid_scroll", status |-> "out_of_bounds"]
            /\ wrote' = 0
            /\ UNCHANGED <<grids, writing, complete, hltable, fpc, fault>>
            /\ ConsumerUnchanged /\ CursorUnchanged
       ELSE LET run == grid_scroll_run(g, top, bottom, left, right, rows)
            IN  /\ grids' = [grids EXCEPT ![writing].cells = run.cells]
                /\ wrote' = IF \E k \in 1..Len(run.writes) : run.writes[k] # {}
                            THEN writing ELSE 0
                /\ last' = [op |-> "grid_scroll",
                            status |-> IF run.overlap THEN "overlap" ELSE "ok"]
                /\ UNCHANGED <<writing, complete, hltable, fpc, fault>>
                /\ ConsumerUnchanged /\ CursorUnchanged

\* -------------------------------------------------------- highlight table
\* std::vector::resize(n, value) on a table of fewer than n entries
table_resize(table, n, value) ==
    [i \in 1..n |-> IF i <= Len(table) THEN table[i] ELSE value]

\* highlight_table::new_entry: the table it leaves and the 0-based index of
\* the entry its result points to
new_entry(table, hlid) ==
    LET table_size == Len(table) IN
    IF hlid = table_size
    THEN [table |-> Append(table, get_default(table)), entry |-> table_size]
    ELSE IF hlid < table_size
    THEN [table |-> [table EXCEPT ![hlid + 1] = get_default(table)],
          entry |-> hlid]
    ELSE [table |-> table_resize(table, hlid, get_default(table)),
          entry |-> hlid - 1]

\* set_rgb_color: a value that is no integer leaves the color as it is
set_rgb_color(color, pair) ==
    IF pair.vint THEN rgb_color(pair.val) ELSE color

\* one pass of the loop of hl_attr_define over pair; a pair is
\* [kstr, key, vint, val]: a string key or not, an integer value or not
hl_apply_pair(hl, pair) ==
    IF ~pair.kstr THEN hl
    ELSE CASE pair.key = "foreground" ->
                [hl EXCEPT !.foreground = set_rgb_color(@, pair)]
           [] pair.key = "background" ->
                [hl EXCEPT !.background = set_rgb_color(@, pair)]
           [] pair.key = "special" ->
                [hl EXCEPT !.special = set_rgb_color(@, pair)]
           [] pair.key \in {"bold", "italic"} ->
                [hl EXCEPT !.fontattrs = @ \cup {pair.key}]
           [] pair.key \in {"underline", "strikethrough", "undercurl", "reverse"} ->
                [hl EXCEPT !.attrs = @ \cup {pair.key}]
           [] OTHER -> hl

RECURSIVE hl_apply(_, _)
hl_apply(hl, definition) ==
    IF definition = <<>> THEN hl
    ELSE hl_apply(hl_apply_pair(hl, Head(definition)), Tail(definition))

\* bool reversed: a string key "reverse" was seen
hl_reversed(definition) ==
    \E k \in 1..Len(definition) :
        definition[k].kstr /\ definition[k].key = "reverse"

\* std::swap(hlattrs->background, hlattrs->foreground)
hl_swap(hl) ==
    [hl EXCEPT !.foreground = hl.background, !.background = hl.foreground]

hl_attr_define_table(table, hlid, definition) ==
    LET new == new_entry(table, hlid)
        applied == hl_apply(new.table[new.entry + 1], definition)
    IN  [new.table EXCEPT ![new.entry + 1] =
            IF hl_reversed(definition) THEN hl_swap(applied) ELSE applied]

hl_attr_define(hlid, definition) ==
    /\ HandlerReady
    /\ hltable' = hl_attr_define_table(hltable, hlid, definition)
    /\ wrote' = 0
    /\ last' = [op |-> "hl_attr_define", status |-> "ok"]
    /\ UNCHANGED <<grids, writing, complete, fpc, fault>>
    /\ ConsumerUnchanged /\ CursorUnchanged

\* ---------------------------------------------------- default_colors_set
\* the loop body with every color rewritten, tracking the default or not
default_colors_cell_all(c, rgb_fg, rgb_bg, rgb_sp) ==
    [c EXCEPT !.hl_attrs.foreground = rgb_fg, !.hl_attrs.background = rgb_bg,
              !.hl_attrs.special = rgb_sp]

\* the loop body of default_colors_set on one cell
default_colors_cell(c, rgb_fg, rgb_bg, rgb_sp) ==
    [c EXCEPT
       !.hl_attrs.foreground = IF @.is_default THEN rgb_fg ELSE @,
       !.hl_attrs.background = IF @.is_default THEN rgb_bg ELSE @,
       !.hl_attrs.special = IF @.is_default THEN rgb_sp ELSE @]

tracks_default(c) ==
    \/ c.hl_attrs.foreground.is_default
    \/ c.hl_attrs.background.is_default
    \/ c.hl_attrs.special.is_default

default_colors_set(fg, bg, sp) ==
    LET rgb_fg == rgb_color_default(fg)
        rgb_bg == rgb_color_default(bg)
        rgb_sp == rgb_color_default(sp)
        cells == grids[writing].cells
    IN  /\ HandlerReady
        /\ hltable' = [hltable EXCEPT ![1] =
                          [foreground |-> rgb_fg, background |-> rgb_bg,
                           special |-> rgb_sp, fontattrs |-> {}, attrs |-> {}]]
        /\ grids' = [grids EXCEPT ![writing].cells =
                        [i \in 1..Len(cells) |->
                            default_colors_cell(cells[i], rgb_fg, rgb_bg, rgb_sp)]]
        /\ wrote' = IF \E i \in 1..Len(cells) : tracks_default(cells[i])
                    THEN writing ELSE 0
        /\ last' = [op |-> "default_colors_set", status |-> "ok"]
        /\ UNCHANGED <<writing, complete, fpc, fault>>
        /\ ConsumerUnchanged /\ CursorUnchanged

\* ---------------------------------------------------------- cursor table
\* cursor_attributes attrs; as declared, nothing set
cursor_attributes_init ==
    [shape |-> "gui_default", percentage |-> 0, blinkwait |-> 0, blinkon |-> 0,
     blinkoff |-> 0, mode_name |-> "", foreground |-> rgb_color_init,
     background |-> rgb_color_init]

\* a value of a property map is [vtype, ival, sval]: its dynamic type, and
\* its value when it is an integer or a string
\* to_cursor_shape
to_cursor_shape(value) ==
    IF value.vtype = "string" /\ value.sval \in {"block", "vertical", "horizontal"}
    THEN value.sval ELSE "gui_default"

\* to<uint16_t>: the integer cast to 16 bits, 0 for any other type
to_uint16(value) == IF value.vtype = "integer" THEN value.ival % 65536 ELSE 0

\* to<msg::string>: the string, empty for any other type
to_string(value) == IF value.vtype = "string" THEN value.sval ELSE ""

\* set_color_attrs on st = [attrs, died]; get_entry's result is read without
\* a test, so for an id without entry the reads go through a null pointer:
\* null_read is what they give, the death of the process or two colors
set_color_attrs(st, table, value, null_read) ==
    IF value.vtype # "integer" THEN st
    ELSE LET hl_attrs == get_entry(table, value.ival) IN
         IF hl_attrs = <<>>
         THEN IF null_read.died THEN [st EXCEPT !.died = TRUE]
              ELSE [st EXCEPT !.attrs.foreground = null_read.foreground,
                              !.attrs.background = null_read.background]
         ELSE [st EXCEPT !.attrs.foreground = hl_attrs[1].foreground,
                         !.attrs.background = hl_attrs[1].background]

\* one pass of the loop of to_cursor_attributes; a pair is [kstr, key, value]
cursor_apply_pair(st, table, pair, null_read) ==
    IF ~pair.kstr THEN st
    ELSE CASE pair.key = "cursor_shape" ->
                [st EXCEPT !.attrs.shape = to_cursor_shape(pair.value)]
           [] pair.key = "cell_percentage" ->
                [st EXCEPT !.attrs.percentage = to_uint16(pair.value)]
           [] pair.key = "blinkwait" ->
                [st EXCEPT !.attrs.blinkwait = to_uint16(pair.value)]
           [] pair.key = "blinkon" ->
                [st EXCEPT !.attrs.blinkon = to_uint16(pair.value)]
           [] pair.key = "blinkoff" ->
                [st EXCEPT !.attrs.blinkoff = to_uint16(pair.value)]
           [] pair.key = "name" ->
                [st EXCEPT !.attrs.mode_name = to_string(pair.value)]
           [] pair.key = "attr_id" ->
                set_color_attrs(st, table, pair.value, null_read)
           [] OTHER -> st

\* to_cursor_attributes from pair k on: [attrs, died]
RECURSIVE to_cursor_attributes_loop(_, _, _, _, _)
to_cursor_attributes_loop(st, table, map, k, null_read) ==
    IF k > Len(map) \/ st.died THEN st
    ELSE to_cursor_attributes_loop(cursor_apply_pair(st, table, map[k], null_read),
                                   table, map, k + 1, null_read)

to_cursor_attributes(table, map, null_read) ==
    to_cursor_attributes_loop([attrs |-> cursor_attributes_init, died |-> FALSE],
                              table, map, 1, null_read)

\* the loop of mode_info_set from object k on; an object is [ismap, map];
\* st is [cursor_table, died]
RECURSIVE mode_info_set_loop(_, _, _, _, _)
mode_info_set_loop(st, table, property_maps, k, null_read) ==
    IF k > Len(property_maps) THEN st
    ELSE IF ~property_maps[k].ismap
    THEN mode_info_set_loop(st, table, property_maps, k + 1, null_read)
    ELSE LET parsed == to_cursor_attributes(table, property_maps[k].map, null_read)
         IN  IF parsed.died THEN [st EXCEPT !.died = TRUE]
             ELSE mode_info_set_loop(
                      [st EXCEPT !.cursor_table = Append(@, parsed.attrs)],
                      table, property_maps, k + 1, null_read)

\* what a read through a null highlight_attributes pointer can give: the
\* death of the process, or whatever lies at the addresses read
NullReads ==
    { [died |-> TRUE, foreground |-> rgb_color_init, background |-> rgb_color_init],
      [died |-> FALSE, foreground |-> rgb_color(99), background |-> rgb_color(98)] }

mode_info_set(enabled, property_maps) ==
    /\ HandlerReady
    /\ \E null_read \in NullReads :
          LET run == mode_info_set_loop([cursor_table |-> <<>>, died |-> FALSE],
                                        hltable, property_maps, 1, null_read)
          IN  /\ cursor_table' = run.cursor_table
              /\ current_mode' = 0
              /\ fault' = IF run.died THEN "segv" ELSE "none"
              /\ last' = [op |-> "mode_info_set",
                          status |-> IF run.died THEN "segv" ELSE "ok"]
    /\ wrote' = 0
    /\ UNCHANGED <<grids, writing, complete, hltable, fpc>>
    /\ ConsumerUnchanged

\* mode_change with the bound test one too wide
mode_change_inclusive(name, index) ==
    /\ HandlerReady
    /\ IF as_size_t(index) > Len(cursor_table)
       THEN /\ last' = [op |-> "mode_change", status |-> "out_of_bounds"]
            /\ UNCHANGED current_mode
       ELSE /\ last' = [op |-> "mode_change", status |-> "ok"]
            /\ current_mode' = index
    /\ wrote' = 0
    /\ UNCHANGED <<grids, writing, complete, hltable, cursor_table, fpc, fault>>
    /\ ConsumerUnchanged

mode_change(name, index) ==
    /\ HandlerReady
    /\ IF as_size_t(index) >= Len(cursor_table)
       THEN /\ last' = [op |-> "mode_change", status |-> "out_of_bounds"]
            /\ UNCHANGED current_mode
       ELSE /\ last' = [op |-> "mode_change", status |-> "ok"]
            /\ current_mode' = index
    /\ wrote' = 0
    /\ UNCHANGED <<grids, writing, complete, hltable, cursor_table, fpc, fault>>
    /\ ConsumerUnchanged

\* ----------------------------------------------------------------- flush
\* completed->draw_tick += 1
flush_tick(g) == [g EXCEPT !.draw_tick = @ + 1]

\* the copy with the cells left as they were
grid_assign_without_cells(dst, src) ==
    [dst EXCEPT !.width = src.width, !.height = src.height,
                !.draw_tick = src.draw_tick]

\* *writing = *completed: the member-wise copy of a grid
grid_assign(dst, src) ==
    [dst EXCEPT !.width = src.width, !.height = src.height,
                !.cells = src.cells, !.draw_tick = src.draw_tick]

\* grid *completed = writing; completed->draw_tick += 1;
flush_begin ==
    /\ HandlerReady
    /\ grids[writing].draw_tick < MaxTick
    /\ grids' = [grids EXCEPT ![writing] = flush_tick(@)]
    /\ wrote' = writing
    /\ fpc' = "exchange"
    /\ last' = [op |-> "flush", status |-> "running"]
    /\ UNCHANGED <<writing, complete, hltable, fault>>
    /\ ConsumerUnchanged /\ CursorUnchanged

\* the exchange with its result dropped: writing stays where it was
flush_exchange_result_dropped ==
    /\ fault = "none" /\ fpc = "exchange"
    /\ complete' = writing
    /\ wrote' = 0
    /\ fpc' = "copy"
    /\ UNCHANGED <<grids, writing, hltable, fault, last>>
    /\ UNCHANGED <<cpc, cgrid, obsTick, cursor_table, current_mode>>

\* writing = complete.exchange(completed);
flush_exchange ==
    /\ fault = "none" /\ fpc = "exchange"
    /\ complete' = writing
    /\ writing' = complete
    /\ wrote' = 0
    /\ fpc' = "copy"
    /\ UNCHANGED <<grids, hltable, fault, last>>
    /\ ConsumerUnchanged /\ CursorUnchanged

\* *writing = *completed; window.redraw();
flush_copy ==
    /\ fault = "none" /\ fpc = "copy"
    /\ grids' = [grids EXCEPT ![writing] = grid_assign(@, grids[complete])]
    /\ wrote' = writing
    /\ fpc' = "idle"
    /\ last' = [last EXCEPT !.status = "ok"]
    /\ UNCHANGED <<writing, complete, hltable, fault>>
    /\ ConsumerUnchanged /\ CursorUnchanged

\* ---------------------------------------------------------- event binder
\* a msg::object is [vtype, ival, sval, items]: its dynamic type, its value
\* when it is an integer, a boolean (0, 1) or a string, and its elements
\* when it is an array or a map
\* the parameter types of the handlers for which is<T> asks for an integer:
\* the integral types but msg::boolean
Integral == {"size_t", "long", "uint32_t"}

\* is<T>(object)
is(T, object) ==
    IF T \in Integral THEN object.vtype = "integer" ELSE object.vtype = T

\* the parameter types of the member function each event name is bound to
Handled ==
    {"grid_line", "grid_resize", "grid_scroll", "flush", "grid_clear",
     "hl_attr_define", "default_colors_set", "mode_info_set", "mode_change"}

Parameters(name) ==
    CASE name = "grid_line" -> <<"size_t", "size_t", "size_t", "array">>
      [] name = "grid_resize" -> <<"size_t", "size_t", "size_t">>
      [] name = "grid_scroll" -> <<"size_t", "size_t", "size_t", "size_t", "size_t", "long">>
      [] name = "flush" -> <<>>
      [] name = "grid_clear" -> <<"size_t">>
      [] name = "hl_attr_define" -> <<"size_t", "map">>
      [] name = "default_colors_set" -> <<"uint32_t", "uint32_t", "uint32_t">>
      [] name = "mode_info_set" -> <<"boolean", "array">>
      [] name = "mode_change" -> <<"string", "size_t">>

\* the test of apply_one with the types left out
apply_one_accepts_untyped(Ts, object) ==
    object.vtype = "array" /\ Len(Ts) <= Len(object.items)

\* the test of apply_one: object.is<msg::array>() and
\* size <= args.size() && (is<Ts>(args[index++]) && ...)
apply_one_accepts(Ts, object) ==
    /\ object.vtype = "array"
    /\ Len(Ts) <= Len(object.items)
    /\ \A i \in 1..Len(Ts) : is(Ts[i], object.items[i])

\* call: the member function on get<Ts>(array[Indexes])...
call(name, array) ==
    IF name = "grid_line"
    THEN grid_line(array[1].ival, array[2].ival, array[3].ival, array[4].items)
    ELSE IF name = "grid_resize"
    THEN grid_resize(array[1].ival, array[2].ival, array[3].ival)
    ELSE IF name = "grid_scroll"
    THEN grid_scroll(array[1].ival, array[2].ival, array[3].ival, array[4].ival,
                     array[5].ival, array[6].ival)
    ELSE IF name = "flush" THEN flush_begin
    ELSE IF name = "grid_clear" THEN grid_clear(array[1].ival)
    ELSE IF name = "hl_attr_define"
    THEN hl_attr_define(array[1].ival, array[2].items)
    ELSE IF name = "default_colors_set"
    THEN default_colors_set(array[1].ival, array[2].ival, array[3].ival)
    ELSE IF name = "mode_info_set"
    THEN mode_info_set(array[1].ival = 1, array[2].items)
    ELSE mode_change(array[1].sval, array[2].ival)

\* a step of redraw() that calls no handler
redraw_skip(status) ==
    /\ last' = [op |-> "redraw_event", status |-> status]
    /\ wrote' = 0
    /\ UNCHANGED <<grids, writing, complete, hltable, cursor_table, current_mode,
                   fpc, fault>>
    /\ ConsumerUnchanged

\* the loops of redraw() and apply() moved on by one event, by one tuple
next_event == batch' = [batch EXCEPT !.e = @ + 1, !.t = 2]
next_tuple ==
    IF batch.t < Len(batch.events[batch.e].items)
    THEN batch' = [batch EXCEPT !.t = @ + 1]
    ELSE next_event

\* redraw(): one pass of its loops; redraw_event on an event it rejects or
\* does not handle, apply_one on the next tuple of an event it handles
redraw_event ==
    /\ HandlerReady
    /\ batch.e <= Len(batch.events)
    /\ LET event == batch.events[batch.e] IN
       IF \/ event.vtype # "array"
          \/ Len(event.items) = 0
          \/ event.items[1].vtype # "string"
       THEN redraw_skip("event_type_error") /\ next_event
       ELSE IF event.items[1].sval \notin Handled
       THEN redraw_skip("unhandled") /\ next_event
       ELSE IF batch.t > Len(event.items)
       THEN redraw_skip("no_tuples") /\ next_event
       ELSE LET name == event.items[1].sval
                object == event.items[batch.t]
            IN  /\ IF apply_one_accepts(Parameters(name), object)
                   THEN call(name, object.items)
                   ELSE redraw_skip("type_error")
                /\ next_tuple

\* -------------------------------------------------------------- consumer
\* The rendering thread: one atomic load of the complete slot, then plain
\* reads of the grid it names.
EventUnchanged ==
    UNCHANGED <<grids, writing, complete, hltable, cursor_table, current_mode,
                fpc, fault, last, hist, ops, batch>>

consumer_load ==
    /\ fault = "none" /\ cpc = "idle"
    /\ cgrid' = complete
    /\ cpc' = "width"
    /\ wrote' = 0
    /\ UNCHANGED obsTick
    /\ EventUnchanged

consumer_read(from, to) ==
    /\ fault = "none" /\ cpc = from
    /\ cpc' = to
    /\ wrote' = 0
    /\ UNCHANGED <<cgrid, obsTick>>
    /\ EventUnchanged

consumer_read_tick ==
    /\ fault = "none" /\ cpc = "tick"
    /\ obsTick' = grids[cgrid].draw_tick
    /\ cpc' = "idle"
    /\ cgrid' = 0
    /\ wrote' = 0
    /\ EventUnchanged

Consumer ==
    \/ consumer_load
    \/ consumer_read("width", "height")
    \/ consumer_read("height", "cells")
    \/ consumer_read("cells", "tick")
    \/ consumer_read_tick

\* ------------------------------------------------------------------ spec
\* the engine as constructed, but for the writing grid and the table, with
\* the events a redraw() call is given
InitBatch(g, table, events) ==
    /\ grids = [b \in Buffers |-> IF b = 1 THEN g ELSE grid_init]
    /\ writing = 1
    /\ complete = 2
    /\ hltable = table
    /\ cursor_table = <<>>
    /\ current_mode = 0
    /\ fpc = "idle"
    /\ cpc = "idle"
    /\ cgrid = 0
    /\ obsTick = 0
    /\ wrote = 0
    /\ fault = "none"
    /\ last = NoCall
    /\ hist = NoHist
    /\ ops = 0
    /\ batch = [NoBatch EXCEPT !.events = events]

\* the same with no redraw() call under way: the handlers are called directly
InitWith(g, table) == InitBatch(g, table, <<>>)
Direct == UNCHANGED batch

Init == InitWith(grid_init, <<highlight_attributes_init>>)

Dims == 0..MaxDim

TextA == <<97>>
TextB == <<98>>
TextSpace == <<SPACE>>

Obj(shape, text, hl, repeat) ==
    [shape |-> shape, text |-> text, hl |-> hl, repeat |-> repeat]
Pair(key, val) == [kstr |-> TRUE, key |-> key, vint |-> TRUE, val |-> val]

\* the call as the handler found it
Called(args) == hist' = [grid |-> grids[writing], table |-> hltable, args |-> args]

\* the grid_line runs of the main specification
MainLines ==
    { <<Obj("th", TextA, 0, 1)>>,
      <<Obj("thr", TextSpace, 1, MaxDim)>>,
      <<Obj("th", TextB, 1, 1), Obj("t", TextA, 0, 1)>> }

MainDefinitions == { <<Pair("foreground", 5)>> }

\* Spec: the event thread alone, every grid handler and flush()
Budget == ops < MaxOps /\ ops' = ops + 1

Handlers ==
    \/ \E w \in Dims, h \in Dims :
          Budget /\ Direct /\ grid_resize(1, w, h) /\ Called([width |-> w, height |-> h])
    \/ Budget /\ Direct /\ grid_clear(1) /\ Called(<<>>)
    \/ \E row \in Dims, col \in {0, 1}, objects \in MainLines :
          Budget /\ Direct /\ grid_line(1, row, col, objects) /\ hist' = NoHist
    \/ \E bottom \in Dims, right \in Dims, rows \in {-1, 1} :
          Budget /\ Direct /\ grid_scroll(1, 0, bottom, 0, right, rows) /\ hist' = NoHist
    \/ \E definition \in MainDefinitions :
          Budget /\ Direct /\ hl_attr_define(1, definition) /\ hist' = NoHist
    \/ Budget /\ Direct /\ default_colors_set(1, 2, 3) /\ hist' = NoHist

Flush ==
    \/ flush_begin /\ Called(<<>>) /\ UNCHANGED <<ops, batch>>
    \/ flush_exchange /\ UNCHANGED <<hist, ops, batch>>
    \/ flush_copy /\ UNCHANGED <<hist, ops, batch>>

Next == Handlers \/ Flush

Spec == Init /\ [][Next]_vars

\* SpecPub: the event thread and the consumer thread, interleaved
PubHandlers ==
    \/ \E h \in 1..MaxDim : Budget /\ Direct /\ grid_resize(1, 1, h) /\ hist' = NoHist
    \/ Budget /\ Direct /\ grid_clear(1) /\ hist' = NoHist
    \/ Budget /\ Direct /\ grid_line(1, 0, 0, <<Obj("th", TextA, 0, 1)>>) /\ hist' = NoHist
    \/ \E h \in 1..MaxDim : Budget /\ Direct /\ grid_scroll(1, 0, h, 0, 1, 1) /\ hist' = NoHist
    \/ Budget /\ Direct /\ default_colors_set(1, 2, 3) /\ hist' = NoHist

PubFlush ==
    \/ flush_begin /\ UNCHANGED <<hist, ops, batch>>
    \/ flush_exchange /\ UNCHANGED <<hist, ops, batch>>
    \/ flush_copy /\ UNCHANGED <<hist, ops, batch>>

NextPub == PubHandlers \/ PubFlush \/ Consumer

SpecPub == Init /\ [][NextPub]_vars

\* ------------------------------------------------ publication (C1 .. C4)
Reading == cpc # "idle"

\* C1: while the consumer reads the grid it loaded from the complete slot,
\* no step of the event thread stores into that buffer.
NoWriteWhileReading == ~(Reading /\ wrote # 0 /\ wrote = cgrid)

\* C2: the writing pointer and the complete slot name different buffers, and
\* a step that stores into a grid stores into the buffer the complete slot
\* does not name.
WritesMissComplete ==
    /\ writing # complete
    /\ wrote # 0 => (wrote = writing /\ wrote # complete)

WritesMissCompleteWitness ==
    /\ grids[complete].draw_tick >= 1
    /\ wrote = writing
    /\ last.op = "grid_scroll"

\* each exchange publishes a grid whose draw_tick is one more than the
\* draw_tick of the grid published before it (the first half of C3)
TickByOne ==
    [][complete' # complete =>
          grids'[complete'].draw_tick = grids[complete].draw_tick + 1]_vars

\* C3: each exchange publishes a grid whose draw_tick is one more than the
\* draw_tick of the grid published before it, and the draw_tick values the
\* consumer reads, one per load of the complete slot, never decrease.
TickByOneAndMonotonic ==
    [][/\ complete' # complete =>
             grids'[complete'].draw_tick = grids[complete].draw_tick + 1
       /\ obsTick' >= obsTick]_vars

\* C4: when flush() has returned, the complete grid has the width, height
\* and cells the writing grid had before the flush, and the new writing grid
\* equals it in every field.
Flushed == last.op = "flush" /\ last.status = "ok"

FlushPublishesAndCopies ==
    Flushed =>
        /\ grids[complete].width = hist.grid.width
        /\ grids[complete].height = hist.grid.height
        /\ grids[complete].cells = hist.grid.cells
        /\ grids[complete].draw_tick = hist.grid.draw_tick + 1
        /\ grids[writing] = grids[complete]

FlushPublishesAndCopiesWitness ==
    /\ Flushed
    /\ grids[complete].draw_tick = 2
    /\ \E i \in 1..Len(grids[complete].cells) : grids[complete].cells[i] # cell_init

\* ------------------------------------------------------ resize (C5, C6)
\* C5: both buffers hold exactly width * height cells, and after
\* grid_resize(1, w, h) the writing grid is w wide, h high and has w * h cells.
CellsMatchDimensions ==
    /\ \A b \in Buffers : Len(grids[b].cells) = grids[b].width * grids[b].height
    /\ (last.op = "grid_resize" /\ last.status = "ok") =>
          /\ grids[writing].width = hist.args.width
          /\ grids[writing].height = hist.args.height
          /\ Len(grids[writing].cells) = hist.args.width * hist.args.height

CellsMatchDimensionsWitness ==
    /\ last.op = "grid_resize"
    /\ hist.args.width = 1 /\ hist.args.height = 2
    /\ Len(hist.grid.cells) = 4
    /\ grids[complete].draw_tick >= 1

\* C6: after grid_resize every cell of the writing grid is the
\* default-initialized cell.
ResizeDiscardsContents ==
    (last.op = "grid_resize" /\ last.status = "ok") =>
        \A i \in 1..Len(grids[writing].cells) : grids[writing].cells[i] = cell_init

\* ------------------------------------------------- the handlers, one call
\* a grid whose cells are told apart by their text: "1", "2", ...
marker_cell(i) == make_cell(<<48 + i>>, highlight_attributes_init)
marker_grid(w, h) ==
    [width |-> w, height |-> h, cells |-> [i \in 1..(w * h) |-> marker_cell(i)],
     draw_tick |-> 0]

\* a table entry told apart by its foreground, as hl_attr_define leaves it
marker_entry(i) ==
    [highlight_attributes_init EXCEPT !.foreground = rgb_color(10 + i)]
marker_table(default, n) ==
    [i \in 1..n |-> IF i = 1 THEN default ELSE marker_entry(i)]

\* the default entry as constructed and as default_colors_set(1, 2, 3) leaves it
Defaults ==
    { highlight_attributes_init,
      [foreground |-> rgb_color_default(1), background |-> rgb_color_default(2),
       special |-> rgb_color_default(3), fontattrs |-> {}, attrs |-> {}] }

SeqsUpTo(S, n) == UNION {[1..m -> S] : m \in 0..n}

\* SpecLine: one grid_line call on a marked grid, ids 0 and 1 defined
LineObjects ==
    { Obj("t", TextA, 0, 0), Obj("th", TextA, 0, 0), Obj("th", TextB, 1, 0),
      Obj("th", TextA, 2, 0), Obj("bad", <<>>, 0, 0) }
    \cup { Obj("thr", TextB, 1, r) : r \in (-1)..MaxLineWidth }

InitLine ==
    \E w \in 1..MaxLineWidth, h \in 1..MaxLineHeight :
        InitWith(marker_grid(w, h), marker_table(highlight_attributes_init, 2))

NextLine ==
    /\ ops = 0 /\ ops' = 1 /\ Direct
    /\ \E row \in (-1)..MaxLineHeight, col \in (-1)..MaxLineWidth,
          objects \in SeqsUpTo(LineObjects, MaxUpdates) :
          /\ grid_line(1, row, col, objects)
          /\ Called([row |-> row, col |-> col, cells |-> objects])

SpecLine == InitLine /\ [][NextLine]_vars

\* SpecScroll: one grid_scroll call on a marked grid
InitScroll ==
    \E w \in 1..MaxScrollWidth, h \in 1..MaxScrollHeight :
        InitWith(marker_grid(w, h), <<highlight_attributes_init>>)

NextScroll ==
    /\ ops = 0 /\ ops' = 1 /\ Direct
    /\ \E top \in (-1)..(MaxScrollHeight + 1), bottom \in (-1)..(MaxScrollHeight + 1),
          left \in 0..(MaxScrollWidth + 1), right \in 0..(MaxScrollWidth + 1),
          rows \in (0 - MaxScrollHeight - 1)..(MaxScrollHeight + 1) :
          /\ grid_scroll(1, top, bottom, left, right, rows)
          /\ Called([top |-> top, bottom |-> bottom, left |-> left,
                     right |-> right, rows |-> rows])

SpecScroll == InitScroll /\ [][NextScroll]_vars

\* SpecHl: one hl_attr_define call on a table of one to MaxTableSize entries
NonString == [kstr |-> FALSE, key |-> "", vint |-> TRUE, val |-> 9]
NonInteger(key) == [kstr |-> TRUE, key |-> key, vint |-> FALSE, val |-> 0]

Definitions ==
    { <<>>,
      <<Pair("foreground", 5)>>,
      <<Pair("background", 6)>>,
      <<Pair("foreground", 5), Pair("reverse", 1)>>,
      <<Pair("reverse", 1), Pair("foreground", 5)>>,
      <<Pair("foreground", 5), Pair("background", 6), Pair("reverse", 1)>>,
      <<Pair("foreground", 5), Pair("reverse", 1), Pair("background", 6)>>,
      <<Pair("bold", 1), Pair("italic", 1)>>,
      <<Pair("special", 7), Pair("underline", 1), Pair("undercurl", 1)>>,
      <<Pair("strikethrough", 1), Pair("blend", 3)>>,
      <<NonString, Pair("background", 6)>>,
      <<NonInteger("foreground"), Pair("special", 7)>> }

InitHl ==
    \E default \in Defaults, n \in 1..MaxTableSize :
        InitWith(grid_init, marker_table(default, n))

NextHl ==
    /\ ops = 0 /\ ops' = 1 /\ Direct
    /\ \E hlid \in 0..(MaxTableSize + 2), definition \in Definitions :
          /\ hl_attr_define(hlid, definition)
          /\ Called([hlid |-> hlid, definition |-> definition])

SpecHl == InitHl /\ [][NextHl]_vars

\* ---------------------------------------------------- grid_line (C7, C8)
LineArgs == hist.args
LineRun ==
    grid_line_run(hist.grid, hist.table, LineArgs.row, LineArgs.col, LineArgs.cells)

\* what the wire format says of update k, the handler's code aside:
\* its repeat count, the highlight id in force, the column it starts at
RepeatOf(object) == IF object.shape = "thr" THEN object.repeat ELSE 1

RECURSIVE IdInForce(_, _)
IdInForce(objects, k) ==
    IF k = 0 THEN <<>>
    ELSE IF objects[k].shape \in {"th", "thr"} THEN <<objects[k].hl>>
    ELSE IdInForce(objects, k - 1)

RECURSIVE RepeatsBefore(_, _)
RepeatsBefore(objects, k) ==
    IF k <= 1 THEN 0
    ELSE RepeatsBefore(objects, k - 1) + RepeatOf(objects[k - 1])

HasEntry(table, id) == id # <<>> /\ id[1] >= 0 /\ id[1] < Len(table)

\* why update k is rejected on a row with `room` cells from the start column
RejectCause(objects, k, table, room) ==
    IF objects[k].shape \notin {"t", "th", "thr"} THEN "type_error"
    ELSE IF ~HasEntry(table, IdInForce(objects, k)) THEN "unknown_hl"
    ELSE IF RepeatOf(objects[k]) < 0
            \/ RepeatOf(objects[k]) > room - RepeatsBefore(objects, k)
         THEN "row_overflow"
    ELSE "none"

\* the updates before the first rejected one
RECURSIVE AcceptedFrom(_, _, _, _)
AcceptedFrom(objects, k, table, room) ==
    IF k > Len(objects) \/ RejectCause(objects, k, table, room) # "none"
    THEN k - 1
    ELSE AcceptedFrom(objects, k + 1, table, room)

LineInBounds ==
    /\ LineArgs.row >= 0 /\ LineArgs.row < hist.grid.height
    /\ LineArgs.col >= 0 /\ LineArgs.col < hist.grid.width

LineRoom == hist.grid.width - LineArgs.col
LineAccepted == AcceptedFrom(LineArgs.cells, 1, hist.table, LineRoom)

\* the cell indexes of the run of update k
RunOf(k) ==
    LET first == LineArgs.row * hist.grid.width + LineArgs.col
                 + RepeatsBefore(LineArgs.cells, k)
    IN  {first + j : j \in 0..(RepeatOf(LineArgs.cells[k]) - 1)}

\* C7: every accepted update with repeat count r stores to exactly the r
\* cells that follow the previous update's run, and those cells hold the
\* cell made of its text and of the highlight in force.
AcceptedUpdateWritesItsRun ==
    (last.op = "grid_line" /\ fault = "none") =>
        \A k \in 1..Len(LineRun.writes) :
            /\ LineRun.writes[k] = RunOf(k)
            /\ \A i \in RunOf(k) :
                  grids[writing].cells[i + 1] =
                      make_cell(LineArgs.cells[k].text,
                                hist.table[IdInForce(LineArgs.cells, k)[1] + 1])

\* C8: a call that reaches a rejected update leaves the grid as the same
\* call with only the updates before it leaves it, and returns.
LineRejected ==
    /\ last.op = "grid_line"
    /\ last.status \in {"out_of_bounds", "type_error", "unknown_hl", "row_overflow"}

RejectedUpdateStopsTheRun ==
    LineRejected =>
        /\ fault = "none"
        /\ grids[writing].width = hist.grid.width
        /\ grids[writing].height = hist.grid.height
        /\ IF ~LineInBounds
           THEN /\ last.status = "out_of_bounds"
                /\ grids[writing].cells = hist.grid.cells
           ELSE LET n == LineAccepted
                    prefix == grid_line_run(hist.grid, hist.table, LineArgs.row,
                                            LineArgs.col, SubSeq(LineArgs.cells, 1, n))
                IN  /\ n < Len(LineArgs.cells)
                    /\ last.status = RejectCause(LineArgs.cells, n + 1,
                                                 hist.table, LineRoom)
                    /\ prefix.status = "ok"
                    /\ grids[writing].cells = prefix.cells

RejectedUpdateStopsTheRunWitness ==
    /\ LineRejected
    /\ last.status = "row_overflow"
    /\ LineAccepted = 1
    /\ grids[writing].cells # hist.grid.cells

\* ---------------------------------------------------- grid_scroll (C9)
ScrollArgs == hist.args
CellAt(g, r, c) == g.cells[r * g.width + c + 1]

\* C9: after an accepted scroll by rows, every destination row holds, in the
\* columns of the region, what the row `rows` below (above) it held before.
ScrollMovesRows ==
    (last.op = "grid_scroll" /\ last.status \notin {"invalid_args", "out_of_bounds"}) =>
        LET a == ScrollArgs
            dest == IF a.rows > 0 THEN a.top..(a.bottom - a.rows - 1)
                    ELSE IF a.rows < 0 THEN (a.top - a.rows)..(a.bottom - 1)
                    ELSE {}
        IN  /\ last.status = "ok"
            /\ \A r \in dest : \A c \in a.left..(a.right - 1) :
                  CellAt(grids[writing], r, c) = CellAt(hist.grid, r + a.rows, c)

ScrollMovesRowsWitness ==
    /\ last.op = "grid_scroll" /\ last.status = "ok"
    /\ ScrollArgs.rows = -1
    /\ ScrollArgs.bottom - ScrollArgs.top >= 3
    /\ ScrollArgs.right - ScrollArgs.left >= 2
    /\ grids[writing].cells # hist.grid.cells

\* ------------------------------------------------- hl_attr_define (C10)
\* C10: after hl_attr_define(hl_id, definition) the table has an entry at
\* hl_id, it holds the default overridden by the definition, the ids from the
\* old size up to hl_id hold the default, and a lookup of hl_id finds it.
DefinedEntry ==
    LET applied == hl_apply(get_default(hist.table), hist.args.definition)
    IN  IF hl_reversed(hist.args.definition) THEN hl_swap(applied) ELSE applied

DefineMakesEntry ==
    last.op = "hl_attr_define" =>
        /\ hist.args.hlid < Len(hltable)
        /\ hltable[hist.args.hlid + 1] = DefinedEntry
        /\ \A id \in Len(hist.table)..(hist.args.hlid - 1) :
              hltable[id + 1] = get_default(hist.table)
        /\ get_entry(hltable, hist.args.hlid) = <<DefinedEntry>>

\* ------------------------------------------------- reverse (C11)
IsReverse(pair) == pair.kstr /\ pair.key = "reverse"
IsNotReverse(pair) == ~IsReverse(pair)

\* the attributes all keys but `reverse` give, starting from the default
OtherKeysApplied ==
    hl_apply(get_default(hist.table), SelectSeq(hist.args.definition, IsNotReverse))

\* the foreground key of the definition, when it has one with an integer value
ForegroundOf(definition) ==
    {definition[k].val : k \in {j \in 1..Len(definition) :
        definition[j].kstr /\ definition[j].key = "foreground" /\ definition[j].vint}}
HasKey(definition, key) ==
    \E k \in 1..Len(definition) : definition[k].kstr /\ definition[k].key = key

ReverseDefined ==
    last.op = "hl_attr_define" /\ hl_reversed(hist.args.definition)

\* entry e is the other keys' result with foreground and background exchanged
SwappedLast(e) ==
    /\ e.foreground = OtherKeysApplied.background
    /\ e.background = OtherKeysApplied.foreground
    /\ (~HasKey(hist.args.definition, "background")) =>
          \A x \in ForegroundOf(hist.args.definition) :
              /\ e.background = rgb_color(x)
              /\ e.foreground = get_default(hist.table).background

\* C11: after hl_attr_define(hl_id, definition) with the key `reverse`
\* anywhere in the definition, the entry of hl_id has as foreground the
\* background all other keys give and as background their foreground; with
\* {foreground: X, reverse} and no background key it has background X and
\* the default entry's background as foreground.
ReverseSwapsLast ==
    ReverseDefined =>
        /\ get_entry(hltable, hist.args.hlid) # <<>>
        /\ SwappedLast(get_entry(hltable, hist.args.hlid)[1])

\* the same of the entry new_entry hands to hl_attr_define, whatever its id
ReverseSwapsLastInEntryWritten ==
    ReverseDefined =>
        SwappedLast(hltable[new_entry(hist.table, hist.args.hlid).entry + 1])

ReverseSwapsLastInEntryWrittenWitness ==
    /\ ReverseDefined
    /\ hist.args.definition[1].key = "reverse"
    /\ hist.args.hlid > Len(hist.table)
    /\ hltable[hist.args.hlid].background = rgb_color(5)

\* ------------------------------------------- default_colors_set (C12)
\* the default entry after default_colors_set(1, 2, 3), and the same with the
\* flags hl_attr_define(0, {bold, underline}) leaves in it
TrackingDefault ==
    [foreground |-> rgb_color_default(1), background |-> rgb_color_default(2),
     special |-> rgb_color_default(3), fontattrs |-> {}, attrs |-> {}]
FlaggedDefault ==
    [TrackingDefault EXCEPT !.fontattrs = {"bold"}, !.attrs = {"underline"}]

\* the attributes a cell can hold: all colors tracking the default, one
\* explicit color, that entry reversed, all colors explicit, and the
\* attributes of a cell never written
ColorKinds ==
    { TrackingDefault,
      hl_apply(TrackingDefault, <<Pair("foreground", 5)>>),
      hl_swap(hl_apply(TrackingDefault, <<Pair("foreground", 5), Pair("reverse", 1)>>)),
      hl_apply(TrackingDefault,
               <<Pair("foreground", 5), Pair("background", 6), Pair("special", 7),
                 Pair("bold", 1)>>),
      highlight_attributes_init }

\* SpecColors: default_colors_set calls on a row of cells of every kind
InitColors ==
    \E kinds \in [1..MaxColorCells -> ColorKinds],
       default \in {TrackingDefault, FlaggedDefault} :
        InitWith([width |-> MaxColorCells, height |-> 1,
                  cells |-> [i \in 1..MaxColorCells |-> make_cell(<<48 + i>>, kinds[i])],
                  draw_tick |-> 0],
                 <<default>>)

NextColors ==
    /\ ops < MaxColorCalls /\ ops' = ops + 1 /\ Direct
    /\ \E c \in 1..MaxColor, d \in 1..MaxColor :
          /\ default_colors_set(10 + c, 20 + d, 30 + c)
          /\ Called([fg |-> 10 + c, bg |-> 20 + d, sp |-> 30 + c])

SpecColors == InitColors /\ [][NextColors]_vars

\* what a color field is after the call: the new default where it tracked
\* the default, itself otherwise
Recolored(old, rgb) == IF old.is_default THEN rgb_color_default(rgb) ELSE old

\* C12: after default_colors_set(fg, bg, sp) the default entry has the colors
\* fg, bg, sp and no flags; every color field of a cell of the writing grid
\* that tracked the default is the new fg, bg or sp and still tracks the
\* default, so that a second call rewrites it again; every explicit color
\* field, and the text, the hash and the flags of every cell, are unchanged.
ColorsFollowDefault ==
    last.op = "default_colors_set" =>
        LET a == hist.args
            old == hist.grid.cells
            new == grids[writing].cells
        IN  /\ get_default(hltable) =
                  [foreground |-> rgb_color_default(a.fg),
                   background |-> rgb_color_default(a.bg),
                   special |-> rgb_color_default(a.sp),
                   fontattrs |-> {}, attrs |-> {}]
            /\ Len(new) = Len(old)
            /\ \A i \in 1..Len(old) :
                  /\ new[i].text = old[i].text
                  /\ new[i].size = old[i].size
                  /\ new[i].hash = old[i].hash
                  /\ new[i].hl_attrs.fontattrs = old[i].hl_attrs.fontattrs
                  /\ new[i].hl_attrs.attrs = old[i].hl_attrs.attrs
                  /\ new[i].hl_attrs.foreground =
                         Recolored(old[i].hl_attrs.foreground, a.fg)
                  /\ new[i].hl_attrs.background =
                         Recolored(old[i].hl_attrs.background, a.bg)
                  /\ new[i].hl_attrs.special =
                         Recolored(old[i].hl_attrs.special, a.sp)

\* a second call, with other colors, on a row that holds a cell tracking the
\* default in its background only and a cell with explicit colors
ColorsFollowDefaultWitness ==
    /\ last.op = "default_colors_set" /\ ops = 2
    /\ \E i \in 1..Len(hist.grid.cells) :
          /\ hist.grid.cells[i].hl_attrs.background.is_default
          /\ ~hist.grid.cells[i].hl_attrs.foreground.is_default
          /\ hist.grid.cells[i].hl_attrs.background.rgb \notin {2, hist.args.bg}
          /\ grids[writing].cells[i].hl_attrs.background.rgb = hist.args.bg
    /\ \E i \in 1..Len(hist.grid.cells) :
          /\ ~tracks_default(hist.grid.cells[i])
          /\ hist.grid.cells[i].hl_attrs.foreground.rgb = 5
    /\ hist.table[1].foreground.rgb # hist.args.fg

\* --------------------------------------------------- cursor modes (C13)
IntV(i) == [vtype |-> "integer", ival |-> i, sval |-> ""]
StrV(str) == [vtype |-> "string", ival |-> 0, sval |-> str]
CPair(key, value) == [kstr |-> TRUE, key |-> key, value |-> value]
NonStringKey == [kstr |-> FALSE, key |-> "", value |-> IntV(1)]

\* an id the table of SpecMode has no entry for
MissingId == MaxTableSize + 4

ModeMaps ==
    { <<CPair("cursor_shape", StrV("block")), CPair("attr_id", IntV(1)),
        CPair("name", StrV("normal"))>>,
      <<CPair("cursor_shape", StrV("vertical")), CPair("attr_id", IntV(1)),
        CPair("attr_id", IntV(MissingId))>>,
      <<CPair("cursor_shape", StrV("wedge")), CPair("cell_percentage", IntV(65561)),
        CPair("blinkwait", StrV("x")), CPair("attr_id", StrV("x")),
        CPair("blinkon", IntV(3)), CPair("blinkoff", IntV(-1)), NonStringKey,
        CPair("mouse_shape", IntV(0))>> }

ModeObjects ==
    { [ismap |-> FALSE, map |-> <<>>] } \cup { [ismap |-> TRUE, map |-> m] : m \in ModeMaps }

\* SpecMode: mode_info_set and mode_change calls, ids 0 and 1 defined
InitMode == InitWith(grid_init, marker_table(TrackingDefault, 2))

NextMode ==
    \/ /\ ops < MaxModeCalls /\ ops' = ops + 1 /\ Direct
       /\ \E property_maps \in SeqsUpTo(ModeObjects, MaxModes) :
             /\ mode_info_set(TRUE, property_maps)
             /\ hist' = [NoHist EXCEPT !.args = [property_maps |-> property_maps]]
    \/ /\ ops < MaxModeCalls /\ ops' = ops + 1 /\ Direct
       /\ \E index \in (-1)..(MaxModes + 1) :
             /\ mode_change("normal", index)
             /\ hist' = [NoHist EXCEPT !.args = [index |-> index]]

SpecMode == InitMode /\ [][NextMode]_vars

IsMap(object) == object.ismap

\* a cursor entry, its colors aside
Uncolored(attrs) ==
    [attrs EXCEPT !.foreground = rgb_color_init, !.background = rgb_color_init]

\* the entries the maps of property_maps parse to, their colors aside
ParsedModes(table, property_maps) ==
    LET maps == SelectSeq(property_maps, IsMap)
        read == CHOOSE null_read \in NullReads : ~null_read.died
    IN  [k \in 1..Len(maps) |->
            Uncolored(to_cursor_attributes(table, maps[k].map, read).attrs)]

ModeInRange == current_mode = 0 \/ current_mode < Len(cursor_table)

\* mode_change(name, index): index >= size changes nothing, a smaller index
\* becomes the current mode
ModeChangeStep ==
    last'.op = "mode_change" =>
        /\ cursor_table' = cursor_table
        /\ IF as_size_t(hist'.args.index) >= Len(cursor_table)
           THEN current_mode' = current_mode
           ELSE current_mode' = hist'.args.index

\* mode_info_set(enabled, property_maps): the table is the maps parsed, in
\* order, nothing of the old table, and the current mode is 0
ModeInfoSetStep ==
    last'.op = "mode_info_set" =>
        LET parsed == ParsedModes(hltable, hist'.args.property_maps) IN
        /\ current_mode' = 0
        /\ Len(cursor_table') <= Len(parsed)
        /\ fault' = "none" => Len(cursor_table') = Len(parsed)
        /\ \A k \in 1..Len(cursor_table') : Uncolored(cursor_table'[k]) = parsed[k]

\* C13: in every state current_mode is 0 or less than cursor_table.size();
\* mode_change with index >= cursor_table.size() leaves current_mode and the
\* table unchanged, with a smaller index sets current_mode to it;
\* mode_info_set replaces the whole table and sets current_mode to 0.
ModeIndexInRange ==
    /\ []ModeInRange
    /\ [][ModeChangeStep /\ ModeInfoSetStep]_vars

ModeIndexInRangeWitness ==
    /\ last.op = "mode_change" /\ last.status = "out_of_bounds"
    /\ hist.args.index = 2
    /\ Len(cursor_table) = 2
    /\ current_mode = 1

\* ------------------------------------------------ event binder (C14, C15)
Integer(i) == [vtype |-> "integer", ival |-> i, sval |-> "", items |-> <<>>]
String(str) == [vtype |-> "string", ival |-> 0, sval |-> str, items |-> <<>>]
Boolean(b) ==
    [vtype |-> "boolean", ival |-> IF b THEN 1 ELSE 0, sval |-> "", items |-> <<>>]
Array(items) == [vtype |-> "array", ival |-> 0, sval |-> "", items |-> items]
Map(items) == [vtype |-> "map", ival |-> 0, sval |-> "", items |-> items]

Integers3(a, b, c) == Array(<<Integer(a), Integer(b), Integer(c)>>)

\* the events of SpecRedraw: malformed ones, one of an unknown name, and for
\* each handler tuples it takes and tuples of the wrong type or length
EventPool ==
    { Integer(5),
      Array(<<>>),
      Array(<<Integer(1), Array(<<Integer(1)>>)>>),
      Array(<<String("win_viewport"), Array(<<Integer(1)>>)>>),
      Array(<<String("grid_resize"), Integers3(1, 1, 2),
              Array(<<Integer(1), String("x"), Integer(1)>>), Integers3(1, 2, 1)>>),
      Array(<<String("grid_clear"), Integer(1), Array(<<Integer(1)>>)>>),
      Array(<<String("grid_clear"), Array(<<Integer(1), Integer(9)>>)>>),
      Array(<<String("grid_clear"), Array(<<>>)>>),
      Array(<<String("grid_line"),
              Array(<<Integer(1), Integer(0), Integer(0),
                      Array(<<Obj("th", TextA, 1, 1)>>)>>),
              Array(<<Integer(1), Integer(0), Boolean(TRUE),
                      Array(<<Obj("th", TextA, 1, 1)>>)>>),
              Array(<<Integer(1), Integer(0), Integer(1),
                      Array(<<Obj("th", TextB, 0, 1)>>)>>)>>),
      Array(<<String("grid_scroll"),
              Array(<<Integer(1), Integer(0), Integer(2), Integer(0), Integer(2),
                      String("1")>>),
              Array(<<Integer(1), Integer(0), Integer(2), Integer(0), Integer(2),
                      Integer(1)>>)>>),
      Array(<<String("flush"), Integer(0), Array(<<>>)>>),
      Array(<<String("hl_attr_define"),
              Array(<<Integer(1), Array(<<>>)>>),
              Array(<<Integer(1), Map(<<Pair("foreground", 5)>>)>>)>>),
      Array(<<String("default_colors_set"), Integers3(7, 8, 9),
              Array(<<Integer(7), Integer(8)>>)>>),
      Array(<<String("mode_info_set"),
              Array(<<Integer(1), Array(<<>>)>>),
              Array(<<Boolean(TRUE), Array(<<[ismap |-> TRUE, map |-> <<>>]>>)>>)>>),
      Array(<<String("mode_change"),
              Array(<<Integer(0), String("normal")>>),
              Array(<<String("normal"), Integer(0)>>)>>) }

\* SpecRedraw: one redraw() call of one to MaxEvents events on a marked grid
InitRedraw ==
    \E events \in SeqsUpTo(EventPool, MaxEvents) \ {<<>>} :
        InitBatch(marker_grid(2, 2), marker_table(TrackingDefault, 2), events)

NextRedraw ==
    \/ redraw_event /\ Called([e |-> batch.e, t |-> batch.t]) /\ UNCHANGED ops
    \/ flush_exchange /\ UNCHANGED <<hist, ops, batch>>
    \/ flush_copy /\ UNCHANGED <<hist, ops, batch>>

SpecRedraw == InitRedraw /\ [][NextRedraw]_vars

\* the engine: everything a handler can change
engine ==
    <<grids, writing, complete, hltable, cursor_table, current_mode, fpc, fault>>

AtEvent == batch.e <= Len(batch.events)
CurrentEvent == batch.events[batch.e]
Malformed(event) ==
    event.vtype # "array" \/ Len(event.items) = 0 \/ event.items[1].vtype # "string"
Recognized(event) == ~Malformed(event) /\ event.items[1].sval \in Handled
AtTuple == AtEvent /\ Recognized(CurrentEvent) /\ batch.t <= Len(CurrentEvent.items)
CurrentName == CurrentEvent.items[1].sval
CurrentTuple == CurrentEvent.items[batch.t]

\* a tuple that is no array or has a value of the wrong type at a position
IllTyped(Ts, object) ==
    \/ object.vtype # "array"
    \/ \E i \in 1..Min(Len(Ts), Len(object.items)) : ~is(Ts[i], object.items[i])

\* a tuple with one value of the right type for each parameter
WellFormed(Ts, object) ==
    /\ object.vtype = "array"
    /\ Len(object.items) = Len(Ts)
    /\ \A i \in 1..Len(Ts) : is(Ts[i], object.items[i])

\* the loops stand at the tuple after the current one, at the next event
AtNextTuple ==
    batch' = IF batch.t < Len(CurrentEvent.items)
             THEN [batch EXCEPT !.t = batch.t + 1]
             ELSE [batch EXCEPT !.e = batch.e + 1, !.t = 2]
AtNextEvent == batch' = [batch EXCEPT !.e = batch.e + 1, !.t = 2]

Skipped == UNCHANGED engine /\ last'.op = "redraw_event"

RedrawStep == batch' # batch

\* C14: a step of redraw() at a tuple that fails the type check changes
\* nothing of the engine and moves on to the next tuple of the event; at a
\* tuple of the right types it calls the handler of the event's name; at an
\* event that is no array, is empty, has no string name or has an unknown
\* name it changes nothing and moves on to the next event.
TypeErrorsSkipped ==
    [][RedrawStep =>
          /\ (AtTuple /\ IllTyped(Parameters(CurrentName), CurrentTuple)) =>
                (Skipped /\ AtNextTuple)
          /\ (AtTuple /\ WellFormed(Parameters(CurrentName), CurrentTuple)) =>
                (last'.op = CurrentName /\ AtNextTuple)
          /\ (AtEvent /\ ~Recognized(CurrentEvent)) =>
                (Skipped /\ AtNextEvent)]_vars

\* the third tuple of a grid_resize event applied after its second tuple,
\* of a wrong type, was skipped
TypeErrorsSkippedWitness ==
    /\ last.op = "grid_resize"
    /\ hist.args.t = 4
    /\ batch.events[hist.args.e].items[3].items[2].vtype = "string"
    /\ hist.grid.width = 1 /\ hist.grid.height = 2
    /\ grids[writing].width = 2 /\ grids[writing].height = 1

\* C15: a step of redraw() at a tuple whose element count is not the
\* handler's parameter count, fewer or more, calls no handler and changes
\* nothing of the engine.
ArityMatched ==
    [][(RedrawStep /\ AtTuple /\ CurrentTuple.vtype = "array"
          /\ Len(CurrentTuple.items) # Len(Parameters(CurrentName))) => Skipped]_vars

\* ---------------------------------------------------- surface ids (C16)
\* SpecIds: one call of a handler that takes a surface id, with any id
GridIds == (-1)..2
IdArgs == 0..MaxIdArg

InitIds == InitWith(marker_grid(2, 2), marker_table(TrackingDefault, 2))

NextIds ==
    \/ /\ ops = 0 /\ ops' = 1 /\ Direct
       /\ \E grid_id \in GridIds, w \in IdArgs, h \in IdArgs :
             /\ grid_resize(grid_id, w, h)
             /\ Called([grid_id |-> grid_id, rest |-> <<w, h>>])
    \/ /\ ops = 0 /\ ops' = 1 /\ Direct
       /\ \E grid_id \in GridIds, row \in IdArgs, col \in IdArgs,
             objects \in {<<>>, <<Obj("th", TextA, 1, 1)>>, <<Obj("th", TextA, 5, 1)>>} :
             /\ grid_line(grid_id, row, col, objects)
             /\ Called([grid_id |-> grid_id, rest |-> <<row, col, Len(objects)>>])
    \/ /\ ops = 0 /\ ops' = 1 /\ Direct
       /\ \E grid_id \in GridIds :
             /\ grid_clear(grid_id)
             /\ Called([grid_id |-> grid_id, rest |-> <<>>])
    \/ /\ ops = 0 /\ ops' = 1 /\ Direct
       /\ \E grid_id \in GridIds, top \in IdArgs, bottom \in IdArgs,
             left \in IdArgs, right \in IdArgs, rows \in {-1, 0, 1} :
             /\ grid_scroll(grid_id, top, bottom, left, right, rows)
             /\ Called([grid_id |-> grid_id, rest |-> <<top, bottom, left, right, rows>>])

SpecIds == InitIds /\ [][NextIds]_vars

\* C16: every call of grid_resize, grid_line, grid_clear or grid_scroll with
\* a surface id other than 1 ends in the abort, whatever its other arguments.
UnknownSurfaceAborts ==
    (last.op \in {"grid_resize", "grid_line", "grid_clear", "grid_scroll"}
        /\ hist.args.grid_id # 1)
    => (fault = "abort" /\ last.status = "abort")

\* ------------------------------------------- unknown highlight ids (C17)
\* the colors of a cursor entry when every attr_id that names no entry is
\* passed over: those of the last attr_id before it that names one
RECURSIVE ColorsKept(_, _, _, _)
ColorsKept(colors, table, map, k) ==
    IF k > Len(map) THEN colors
    ELSE LET pair == map[k]
             named == IF pair.kstr /\ pair.key = "attr_id"
                         /\ pair.value.vtype = "integer"
                         /\ pair.value.ival >= 0 /\ pair.value.ival < Len(table)
                      THEN <<table[pair.value.ival + 1]>> ELSE <<>>
         IN  ColorsKept(IF named = <<>> THEN colors
                        ELSE [foreground |-> named[1].foreground,
                              background |-> named[1].background],
                        table, map, k + 1)

\* C17: mode_info_set with a property map whose attr_id names a highlight id
\* without table entry returns, without crash or undefined access, and the
\* entry's foreground and background are what they were before that field;
\* the engine goes on with the next event.
UnknownHighlightRecovered ==
    last.op = "mode_info_set" =>
        LET maps == SelectSeq(hist.args.property_maps, IsMap) IN
        /\ fault = "none"
        /\ Len(cursor_table) = Len(maps)
        /\ \A k \in 1..Len(maps) :
              LET kept == ColorsKept([foreground |-> rgb_color_init,
                                      background |-> rgb_color_init],
                                     hltable, maps[k].map, 1)
              IN  /\ cursor_table[k].foreground = kept.foreground
                  /\ cursor_table[k].background = kept.background

\* the same of grid_line: an update that names an id without entry ends the
\* call, which returns with the cells as the updates before it left them
UnknownHighlightInLineRecovered ==
    (last.op = "grid_line" /\ last.status = "unknown_hl") =>
        /\ fault = "none"
        /\ grids[writing].cells =
              grid_line_run(hist.grid, hist.table, LineArgs.row, LineArgs.col,
                            SubSeq(LineArgs.cells, 1, LineAccepted)).cells

\* ------------------------------------------------- grid_scroll frame (C18)
ScrollRejected ==
    LET a == ScrollArgs IN
    \/ as_size_t(a.bottom) < as_size_t(a.top)
    \/ as_size_t(a.right) < as_size_t(a.left)
    \/ as_size_t(a.bottom) > hist.grid.height
    \/ as_size_t(a.right) > hist.grid.width

\* the rows a scroll by rows copies into: all rows of the region but the
\* |rows| that scroll out
ScrollDestinations ==
    LET a == ScrollArgs IN
    IF a.rows > 0 THEN a.top..(a.bottom - a.rows - 1)
    ELSE IF a.rows < 0 THEN (a.top - a.rows)..(a.bottom - 1)
    ELSE {}

ScrollChanged(r, c) == CellAt(grids[writing], r, c) # CellAt(hist.grid, r, c)

\* C18: grid_scroll changes no cell outside rows [top, bottom) or columns
\* [left, right) and no cell of the rows that scroll out; with rows = 0 or
\* |rows| >= bottom - top, and when it rejects its arguments, it changes no
\* cell at all.
ScrollChangesOnlyDestinations ==
    last.op = "grid_scroll" =>
        LET a == ScrollArgs
            g == hist.grid
        IN  /\ grids[writing].width = g.width
            /\ grids[writing].height = g.height
            /\ Len(grids[writing].cells) = Len(g.cells)
            /\ fault = "none"
            /\ \A r \in 0..(g.height - 1), c \in 0..(g.width - 1) :
                  ScrollChanged(r, c) =>
                      /\ ~ScrollRejected
                      /\ r \in ScrollDestinations
                      /\ r >= a.top /\ r < a.bottom
                      /\ c >= a.left /\ c < a.right
                      /\ a.rows # 0
                      /\ a.rows < a.bottom - a.top /\ 0 - a.rows < a.bottom - a.top

\* a scroll of a region narrower and shorter than the grid that moved cells
ScrollChangesOnlyDestinationsWitness ==
    /\ last.op = "grid_scroll" /\ last.status = "ok"
    /\ ScrollArgs.top = 1 /\ ScrollArgs.bottom = hist.grid.height
    /\ ScrollArgs.left = 1 /\ ScrollArgs.right = 2
    /\ ScrollArgs.rows = 1
    /\ hist.grid.width = 2 /\ hist.grid.height >= 3
    /\ ScrollChanged(1, 1)

\* ------------------------------------------------------ make_cell (C19)
\* SpecCell: one grid_line call storing one update of any text of up to
\* MaxTextLen bytes, longer than a cell holds
Bytes == {SPACE, 97, 98}
Texts == SeqsUpTo(Bytes, MaxTextLen)

InitCell == InitWith(marker_grid(2, 1), marker_table(TrackingDefault, 2))

NextCell ==
    /\ ops = 0 /\ ops' = 1 /\ Direct
    /\ \E text \in Texts, hl \in {0, 1}, repeat \in 1..2 :
          /\ grid_line(1, 0, 0, <<Obj("thr", text, hl, repeat)>>)
          /\ Called([text |-> text, hl |-> hl, repeat |-> repeat])

SpecCell == InitCell /\ [][NextCell]_vars

\* the first max_text_size bytes of the text given
Truncated(text) == SubSeq(text, 1, Min(Len(text), max_text_size))

\* C19: every cell grid_line stores holds at most max_text_size bytes, the
\* text given cut to that length; its hash is set if and only if its text
\* is not empty and then is 5381 folded with hash * 33 + byte over its
\* bytes; a cell written from one space, or from a text of length 0, holds
\* no text and hash 0.
StoredCellsHashed ==
    last.op = "grid_line" =>
        \A i \in 1..hist.args.repeat :
            LET c == grids[writing].cells[i]
                given == hist.args.text
            IN  /\ Len(c.text) <= max_text_size
                /\ c.size = Len(c.text)
                /\ (c.hash # 0) <=> (c.text # <<>>)
                /\ c.text # <<>> =>
                      /\ c.text = Truncated(given)
                      /\ c.hash = hash_fold(5381, c.text, Len(c.text))
                /\ (given = <<SPACE>> \/ Len(given) = 0) =>
                      (c.text = <<>> /\ c.hash = 0)

\* the claim but for the text of length 0, which the code hashes to 5381
StoredCellsHashedButEmpty ==
    (last.op = "grid_line" /\ hist.args.text # <<>>) => StoredCellsHashed

\* ------------------------------------------------- grid_line frame (C20)
\* C20: grid_line(1, row, col, updates) stores to no index at or past
\* width * height, and leaves every cell of every other row and every cell
\* of its row left of col as it was, however the call ends.
LineStaysInItsRun ==
    last.op = "grid_line" =>
        LET g == hist.grid IN
        /\ fault = "none"
        /\ \A k \in 1..Len(LineRun.writes) :
              \A i \in LineRun.writes[k] : i < g.width * g.height
        /\ Len(grids[writing].cells) = Len(g.cells)
        /\ \A r \in 0..(g.height - 1), c \in 0..(g.width - 1) :
              (r # LineArgs.row \/ c < LineArgs.col) =>
                  CellAt(grids[writing], r, c) = CellAt(g, r, c)

\* the claim for the calls in which no update has repeat count 0
LineStaysInItsRunButRepeatZero ==
    (last.op = "grid_line"
        /\ \A k \in 1..Len(LineArgs.cells) : RepeatOf(LineArgs.cells[k]) # 0)
    => LineStaysInItsRun
====
